---- MODULE Spec2Model ----
(***************************************************************************)
(* hibernate: one sleep/restore cycle of the power-management preferences. *)
(* The model follows main() of src/hibernate.c and of the older revision   *)
(* src/main.c statement by statement.  The platform (sysctl, the IOPM      *)
(* preference store, the power-source query, the IOPMrootDomain session    *)
(* and its notification port, the CFRunLoop) is the environment: each call *)
(* of the program into it draws its outcome from a small set.              *)
(***************************************************************************)
EXTENDS Integers, Sequences, FiniteSets, TLC

VARIABLES
    revision,      \* which source file is built: "hibernate.c" or "main.c"
    simulate,      \* HIBERNATE_SLEEP (hibernate.c:55) / C_SLEEP (main.c) defined
    pc,            \* position of main
    kern,          \* the kernel's answers to the sysctl calls of CheckOSRelease
    gate,          \* rc of CheckOSRelease, "none" before the call
    store,         \* preference store: [custom, profiles]
    store0,        \* the store when main started (history)
    providing,     \* power source now providing power, NoSource when none
    snap,          \* *activePMProfiles and *customPMPreferences of main
    adapt,         \* locals of PMAdaptPreferences and its rc
    refs,          \* per object: references acquired and released by the code
    session,       \* the global io_connect_t session, 0 when empty
    port,          \* messages queued on the notification port
    loopStopped,   \* CFRunLoopStop was called on loop
    sleepResult,   \* result of IOPMSleepSystem, "none" when not called
    acked,         \* tokens passed to IOAllowPowerChange, in order
    log,           \* history: the platform calls made, in order
    issued,        \* history: the notifications the platform issued, in order
    psChanged,     \* the power source changed during the run
    restore,       \* rc of PMRestorePreferences, "none" before it returns
    stderr,        \* the perror() lines written
    exitCode       \* value returned by main, NoExit while running

vars == <<revision, simulate, pc, kern, gate, store, store0, providing, snap,
          adapt, refs, session, port, loopStopped, sleepResult, acked, log,
          issued, psChanged, restore, stderr, exitCode>>

----------------------------------------------------------------------------
(* Bounds of the model.                                                    *)

\* kernel major release numbers range over 0..MaxMajor
MaxMajor == 11
\* kernel minor release numbers range over 0..MaxMinor
MaxMinor == 1
\* notifications the platform issues during one run
MaxEvents == 2


----------------------------------------------------------------------------
(* Program constants.                                                      *)

kCheckOSReleaseSupported == 0
kCheckOSReleaseUnsupported == 1
kCheckOSReleaseError == 2

kPMAdaptPreferencesSuccess == 0
kPMAdaptPreferencesErrorActiveProfiles == 1
kPMAdaptPreferencesErrorCustomPreferences == 2
kPMAdaptPreferencesErrorPowerSource == 3
kPMAdaptPreferencesErrorActivePreferences == 4

kPMRestorePreferencesSuccess == 0
kPMRestorePreferencesErrorCustomPreferences == 1
kPMRestorePreferencesErrorActiveProfiles == 2

kMainSuccess == 0
kMainErrorOSRelease == 1
kMainErrorIOPMrootDomain == 2
kMainErrorPMAdaptPreferences == 3
kMainErrorPMRestorePreferences == 4

\* kHibernateMode is kIOHibernateModeOn
kHibernateMode == 1
kStandby == 0
kWakeOnLAN == 0
kIOPMCustomPowerProfile == -1
\* the release below which CheckOSRelease reports Unsupported
kMinRelease == 10

NoExit == -1
NoRc == -1

----------------------------------------------------------------------------
(* Dictionaries are functions on a finite set of keys.                     *)

Sources == {"AC Power", "Battery Power"}
NoSource == "none"

kIOHibernateModeKey == "Hibernate Mode"
kIOPMDeepSleepEnabledKey == "Standby Enabled"
kIOPMWakeOnLANKey == "Wake On LAN"
Keys == {kIOHibernateModeKey, kIOPMDeepSleepEnabledKey, kIOPMWakeOnLANKey}

EmptyDict == [k \in {} |-> 0]

\* CFDictionarySetValue(d, k, v): add the key or replace its value
CFDictionarySetValue(d, k, v) ==
    [x \in DOMAIN d \cup {k} |-> IF x = k THEN v ELSE d[x]]

\* CFDictionaryGetValueIfPresent(d, k, &v): whether the key is present
CFDictionaryContains(d, k) == k \in DOMAIN d

----------------------------------------------------------------------------
(* The kernel release string and its parsing.                              *)

DigitChar == <<"0", "1", "2", "3", "4", "5", "6", "7", "8", "9">>

IsDigit(c) == \E i \in 1..10 : DigitChar[i] = c

DigitValue(c) == (CHOOSE i \in 1..10 : DigitChar[i] = c) - 1

\* the decimal digits of n, as the kernel prints a release component
RECURSIVE ToDecimal(_)
ToDecimal(n) ==
    IF n < 10 THEN <<DigitChar[n + 1]>>
    ELSE ToDecimal(n \div 10) \o <<DigitChar[(n % 10) + 1]>>

\* kern.osrelease of a kernel of release major.minor.0
OSReleaseString(major, minor) ==
    ToDecimal(major) \o <<".">> \o ToDecimal(minor) \o <<".">> \o <<"0">>

\* a conversion that stops after one digit, as "%1d" would
LeadingDigits_OneDigit(str) ==
    IF str = <<>> \/ ~IsDigit(Head(str)) THEN <<>> ELSE <<Head(str)>>

\* the digits at the head of a string
RECURSIVE LeadingDigits(_)
LeadingDigits(str) ==
    IF str = <<>> \/ ~IsDigit(Head(str)) THEN <<>>
    ELSE <<Head(str)>> \o LeadingDigits(Tail(str))

RECURSIVE DecimalValue(_)
DecimalValue(digits) ==
    IF digits = <<>> THEN 0
    ELSE DecimalValue(SubSeq(digits, 1, Len(digits) - 1)) * 10
         + DigitValue(digits[Len(digits)])

\* sscanf(buffer, "%d.%*d.%*d", &release): the values release can hold
\* afterwards.  %d converts the leading digits; when there are none nothing
\* is stored and release, which has no initializer, is indeterminate.
Sscanf(buffer) ==
    IF LeadingDigits(buffer) = <<>> THEN 0..MaxMajor
    ELSE {DecimalValue(LeadingDigits(buffer))}

\* the answers of the kernel to the two sysctl(KERN_OSRELEASE) calls
NoQuery == [probe |-> FALSE, read |-> FALSE, major |-> 0, release |-> <<>>]

KernAnswers ==
    {NoQuery, [NoQuery EXCEPT !.probe = TRUE]}
    \cup {[probe |-> TRUE, read |-> TRUE, major |-> M,
           release |-> OSReleaseString(M, m)] :
            M \in 0..MaxMajor, m \in 0..MaxMinor}

\* the comparison of CheckOSRelease
ReleaseSupported(release) ==
    IF release < kMinRelease THEN kCheckOSReleaseUnsupported
    ELSE kCheckOSReleaseSupported

----------------------------------------------------------------------------
(* The preference store of the platform.                                   *)

\* per-source preference dictionaries the store holds at start: no settings,
\* every feature off, every feature on (hibernate mode 3)
AllOff == [k \in Keys |-> 0]
AllOn == [k \in Keys |-> IF k = kIOHibernateModeKey THEN 3 ELSE 1]

\* profile selections: the custom profile or the preset profile 0
Profiles == {kIOPMCustomPowerProfile, 0}

\* the preferences of a preset profile
PresetPrefs(p) ==
    [k \in Keys |-> IF k = kIOPMDeepSleepEnabledKey THEN 1 ELSE p]

\* the custom preferences main can start on: a machine without battery and
\* without settings, and machines with settings for both sources
InitCustom ==
    {[s \in {"AC Power"} |-> EmptyDict],
     [s \in Sources |-> IF s = "AC Power" THEN AllOff ELSE AllOn],
     [s \in Sources |-> IF s = "AC Power" THEN AllOn ELSE AllOff]}

\* the stores main can start on
InitStores ==
    {[custom |-> c, profiles |-> p] :
        c \in InitCustom, p \in [Sources -> Profiles]}

\* IOPMCopyActivePowerProfiles(): the profile selection
IOPMCopyActivePowerProfiles(st) == st.profiles

\* a snapshot taken from the active preferences instead of the custom ones
IOPMCopyCustomPMPreferences_Active(st) ==
    [s \in {x \in Sources : st.profiles[x] # kIOPMCustomPowerProfile
                            \/ x \in DOMAIN st.custom} |->
        IF st.profiles[s] = kIOPMCustomPowerProfile THEN st.custom[s]
        ELSE [k \in Keys |-> IF k = kIOPMDeepSleepEnabledKey THEN 1
                                                             ELSE st.profiles[s]]]

\* IOPMCopyCustomPMPreferences(): the custom preferences
IOPMCopyCustomPMPreferences(st) == st.custom

\* IOPMCopyActivePMPreferences(): per source the custom preferences when the
\* custom profile is selected, the preferences of the selected preset otherwise
IOPMCopyActivePMPreferences(st) ==
    [s \in {x \in Sources : st.profiles[x] # kIOPMCustomPowerProfile
                            \/ x \in DOMAIN st.custom} |->
        IF st.profiles[s] = kIOPMCustomPowerProfile THEN st.custom[s]
        ELSE PresetPrefs(st.profiles[s])]

\* IOPMSetCustomPMPreferences(prefs), accepted
IOPMSetCustomPMPreferences(st, prefs) == [st EXCEPT !.custom = prefs]

\* IOPMSetActivePowerProfiles(profiles), accepted
IOPMSetActivePowerProfiles(st, profiles) == [st EXCEPT !.profiles = profiles]

----------------------------------------------------------------------------
(* Reference counting of the Core Foundation objects the code owns.        *)

Objects == {"activePMProfiles", "customPMPreferences", "psInformantion",
            "psType", "activePMPreferences", "mcActivePMPreferences",
            "mcActivePMPreferencesPS", "mcPMActiveProfiles", "observer",
            "source"}

NoRefs == [o \in Objects |-> [acq |-> 0, rel |-> 0]]

\* a Copy/Create/Retain call: the code owns one more reference to each of os
Acquire(r, os) ==
    [o \in Objects |-> IF o \in os THEN [r[o] EXCEPT !.acq = @ + 1] ELSE r[o]]

\* CFRelease on each of os
CFRelease(r, os) ==
    [o \in Objects |-> IF o \in os THEN [r[o] EXCEPT !.rel = @ + 1] ELSE r[o]]

----------------------------------------------------------------------------
(* Initial state.                                                          *)

NoSnapshot == [activePMProfiles |-> EmptyDict, customPMPreferences |-> EmptyDict,
               held |-> {}]

NoAdapt == [rc |-> NoRc, psType |-> NoSource, avail |-> {},
            activePMPreferences |-> EmptyDict,
            mcActivePMPreferences |-> EmptyDict,
            mcActivePMPreferencesPS |-> EmptyDict,
            mcPMActiveProfiles |-> EmptyDict]

Init ==
    /\ revision \in {"hibernate.c", "main.c"}
    /\ simulate \in BOOLEAN
    /\ pc = "CheckOSRelease"
    /\ kern = NoQuery
    /\ gate = NoRc
    /\ store \in InitStores
    /\ store0 = store
    /\ providing \in Sources \cup {NoSource}
    /\ snap = NoSnapshot
    /\ adapt = NoAdapt
    /\ refs = NoRefs
    /\ session = 0
    /\ port = <<>>
    /\ loopStopped = FALSE
    /\ sleepResult = "none"
    /\ acked = <<>>
    /\ log = <<>>
    /\ issued = <<>>
    /\ psChanged = FALSE
    /\ restore = NoRc
    /\ stderr = <<>>
    /\ exitCode = NoExit

\* return from main with the given value
Return(code) ==
    /\ pc' = "done"
    /\ exitCode' = code

\* the process is killed by a fault
Crash ==
    /\ pc' = "crashed"
    /\ exitCode' = exitCode

perror(msg) == stderr' = Append(stderr, msg)

Call(name) == log' = Append(log, name)

----------------------------------------------------------------------------
(* Capability gate.                                                        *)

\* CheckOSRelease(): the two sysctl calls, sscanf and the comparison
CheckOSReleaseRc(k, release) ==
    IF ~k.probe THEN kCheckOSReleaseError
    ELSE IF ~k.read THEN kCheckOSReleaseError
    ELSE ReleaseSupported(release)

CheckOSRelease ==
    /\ pc = "CheckOSRelease"
    /\ \E k \in KernAnswers :
         \E release \in Sscanf(k.release) :
            /\ kern' = k
            /\ gate' = CheckOSReleaseRc(k, release)
    /\ pc' = "main_gate"
    /\ UNCHANGED <<revision, simulate, store, store0, providing, snap, adapt,
                   refs, session, port, loopStopped, sleepResult, acked, log,
                   issued, psChanged, restore, stderr, exitCode>>

\* a gate that stops on the error result only
GatePasses_UnlessError(rc) == rc # kCheckOSReleaseError

\* main: the test rc != kCheckOSReleaseSupported, negated
GatePasses(rc) == rc = kCheckOSReleaseSupported

\* main: if (rc != kCheckOSReleaseSupported) { perror; return 1 }
\* CheckOSRelease has freed its buffer; past the gate the kernel's answers
\* play no further part and are dropped from the state
MainCheckOSRelease ==
    /\ pc = "main_gate"
    /\ IF ~GatePasses(gate)
       THEN /\ perror(IF gate = kCheckOSReleaseUnsupported
                      THEN "hibernate: operating system release unsupported"
                      ELSE "hibernate: getting operating system resease failed")
            /\ Return(kMainErrorOSRelease)
            /\ kern' = kern
       ELSE /\ pc' = "a_profiles"
            /\ kern' = NoQuery
            /\ UNCHANGED <<stderr, exitCode>>
    /\ UNCHANGED <<revision, simulate, gate, store, store0, providing, snap,
                   adapt, refs, session, port, loopStopped, sleepResult, acked,
                   log, issued, psChanged, restore>>

----------------------------------------------------------------------------
(* PMAdaptPreferences, one action per platform call.                       *)

\* a caller that goes on to the registration when the write of the custom
\* preferences was rejected
AdaptReturn_IgnoreRejectedWrite(rc) ==
    pc' = IF rc = kPMAdaptPreferencesErrorCustomPreferences THEN "register"
          ELSE "main_adapt"

\* return rc from PMAdaptPreferences
AdaptReturn(rc) == pc' = "main_adapt"

\* *activePMProfiles = IOPMCopyActivePowerProfiles()
AdaptCopyActivePowerProfiles ==
    /\ pc = "a_profiles"
    /\ Call("IOPMCopyActivePowerProfiles")
    /\ \E ok \in BOOLEAN :
         IF ok
         THEN /\ snap' = [snap EXCEPT
                            !.activePMProfiles = IOPMCopyActivePowerProfiles(store),
                            !.held = @ \cup {"activePMProfiles"}]
              /\ refs' = Acquire(refs, {"activePMProfiles"})
              /\ pc' = "a_custom"
              /\ adapt' = adapt
         ELSE /\ adapt' = [adapt EXCEPT !.rc = kPMAdaptPreferencesErrorActiveProfiles]
              /\ AdaptReturn(adapt'.rc)
              /\ UNCHANGED <<snap, refs>>
    /\ UNCHANGED <<revision, simulate, kern, gate, store, store0, providing,
                   session, port, loopStopped, sleepResult, acked, issued,
                   psChanged, restore, stderr, exitCode>>

\* *customPMPreferences = IOPMCopyCustomPMPreferences()
AdaptCopyCustomPMPreferences ==
    /\ pc = "a_custom"
    /\ Call("IOPMCopyCustomPMPreferences")
    /\ \E ok \in BOOLEAN :
         IF ok
         THEN /\ snap' = [snap EXCEPT
                            !.customPMPreferences = IOPMCopyCustomPMPreferences(store),
                            !.held = @ \cup {"customPMPreferences"}]
              /\ refs' = Acquire(refs, {"customPMPreferences"})
              /\ pc' = "a_psinfo"
              /\ adapt' = adapt
         ELSE /\ refs' = CFRelease(refs, {"activePMProfiles"})
              /\ adapt' = [adapt EXCEPT !.rc = kPMAdaptPreferencesErrorCustomPreferences]
              /\ AdaptReturn(adapt'.rc)
              /\ snap' = snap
    /\ UNCHANGED <<revision, simulate, kern, gate, store, store0, providing,
                   session, port, loopStopped, sleepResult, acked, issued,
                   psChanged, restore, stderr, exitCode>>

\* psInformantion = IOPSCopyPowerSourcesInfo()
AdaptCopyPowerSourcesInfo ==
    /\ pc = "a_psinfo"
    /\ Call("IOPSCopyPowerSourcesInfo")
    /\ \E ok \in BOOLEAN :
         IF ok
         THEN /\ refs' = Acquire(refs, {"psInformantion"})
              /\ pc' = "a_pstype"
              /\ adapt' = adapt
         ELSE /\ refs' = CFRelease(refs, {"activePMProfiles", "customPMPreferences"})
              /\ adapt' = [adapt EXCEPT !.rc = kPMAdaptPreferencesErrorPowerSource]
              /\ AdaptReturn(adapt'.rc)
    /\ UNCHANGED <<revision, simulate, kern, gate, store, store0, providing,
                   snap, session, port, loopStopped, sleepResult, acked, issued,
                   psChanged, restore, stderr, exitCode>>

\* what CFRetain(psType) can do: CFRetain of NULL is undefined, the process
\* faults or the call returns
CFRetainOutcomes(psType) ==
    IF psType = NoSource THEN {"fault", "returns"} ELSE {"returns"}

\* psType = IOPSGetProvidingPowerSourceType(psInformantion); CFRetain(psType);
\* CFRelease(psInformantion); if (!psType) { release both; return }
AdaptGetProvidingPowerSourceType ==
    /\ pc = "a_pstype"
    /\ Call("IOPSGetProvidingPowerSourceType")
    /\ \E outcome \in CFRetainOutcomes(providing) :
         IF outcome = "fault"
         THEN /\ Crash
              /\ adapt' = [adapt EXCEPT !.psType = providing]
              /\ refs' = refs
         ELSE IF providing = NoSource
         THEN /\ refs' = CFRelease(refs, {"psInformantion", "activePMProfiles",
                                           "customPMPreferences"})
              /\ adapt' = [adapt EXCEPT !.psType = providing,
                                        !.rc = kPMAdaptPreferencesErrorPowerSource]
              /\ AdaptReturn(adapt'.rc)
              /\ exitCode' = exitCode
         ELSE /\ refs' = CFRelease(Acquire(refs, {"psType"}), {"psInformantion"})
              /\ adapt' = [adapt EXCEPT !.psType = providing]
              /\ pc' = "a_active"
              /\ exitCode' = exitCode
    /\ UNCHANGED <<revision, simulate, kern, gate, store, store0, providing,
                   snap, session, port, loopStopped, sleepResult, acked, issued,
                   psChanged, restore, stderr>>

\* activePMPreferences = IOPMCopyActivePMPreferences()
AdaptCopyActivePMPreferences ==
    /\ pc = "a_active"
    /\ Call("IOPMCopyActivePMPreferences")
    /\ \E ok \in BOOLEAN :
         IF ok
         THEN /\ refs' = Acquire(refs, {"activePMPreferences"})
              /\ adapt' = [adapt EXCEPT
                             !.activePMPreferences = IOPMCopyActivePMPreferences(store)]
              /\ pc' = "a_build"
         ELSE /\ refs' = CFRelease(refs, {"activePMProfiles", "customPMPreferences",
                                           "psType"})
              /\ adapt' = [adapt EXCEPT !.rc = kPMAdaptPreferencesErrorActivePreferences]
              /\ AdaptReturn(adapt'.rc)
    /\ UNCHANGED <<revision, simulate, kern, gate, store, store0, providing,
                   snap, session, port, loopStopped, sleepResult, acked, issued,
                   psChanged, restore, stderr, exitCode>>

\* the overrides each revision applies, in order: feature key and value
FeatureOverrides(rev) ==
    IF rev = "hibernate.c"
    THEN << [feature |-> kIOHibernateModeKey, value |-> kHibernateMode],
            [feature |-> kIOPMDeepSleepEnabledKey, value |-> kStandby],
            [feature |-> kIOPMWakeOnLANKey, value |-> kWakeOnLAN] >>
    ELSE << [feature |-> kIOHibernateModeKey, value |-> kHibernateMode],
            [feature |-> kIOPMWakeOnLANKey, value |-> kWakeOnLAN] >>

FeatureKeys(rev) ==
    {FeatureOverrides(rev)[i].feature : i \in 1..Len(FeatureOverrides(rev))}

\* overrides that add their value to the one present instead of replacing it
RECURSIVE ApplyOverrides_Add(_, _, _)
ApplyOverrides_Add(d, overrides, avail) ==
    IF overrides = <<>> THEN d
    ELSE ApplyOverrides_Add(
            IF Head(overrides).feature \in avail
            THEN CFDictionarySetValue(d, Head(overrides).feature,
                    Head(overrides).value
                    + (IF Head(overrides).feature \in DOMAIN d
                       THEN d[Head(overrides).feature] ELSE 0))
            ELSE d,
            Tail(overrides), avail)

\* if (IOPMFeatureIsAvailable(feature, psType)) CFDictionarySetValue(d, feature,
\* value), for each override in turn; avail holds the features the platform
\* has for the power source, whether or not the revision asks about them
RECURSIVE ApplyOverrides(_, _, _)
ApplyOverrides(d, overrides, avail) ==
    IF overrides = <<>> THEN d
    ELSE ApplyOverrides(
            IF Head(overrides).feature \in avail
            THEN CFDictionarySetValue(d, Head(overrides).feature,
                                      Head(overrides).value)
            ELSE d,
            Tail(overrides), avail)

\* a dictionary that holds a copy of the value as it was when the entry was set
Deref_Copy(top, key, obj) ==
    [s \in DOMAIN top |-> top[s]]

\* a dictionary holds references: the entry under key is the object obj as it
\* is now, whatever it was when the entry was set
Deref(top, key, obj) ==
    [s \in DOMAIN top |-> IF s = key THEN obj ELSE top[s]]

\* the dictionary PMAdaptPreferences passes to IOPMSetCustomPMPreferences
AdaptedPreferences(a) ==
    Deref(a.mcActivePMPreferences, a.psType, a.mcActivePMPreferencesPS)

\* CFDictionaryGetValueIfPresent(activePMPreferences, psType, ...), the mutable
\* copies, the overrides and the selection of the custom profile
AdaptBuild ==
    /\ pc = "a_build"
    /\ IF ~CFDictionaryContains(adapt.activePMPreferences, adapt.psType)
       THEN /\ refs' = CFRelease(refs, {"activePMProfiles", "customPMPreferences",
                                         "psType", "activePMPreferences"})
            /\ adapt' = [adapt EXCEPT !.rc = kPMAdaptPreferencesErrorActivePreferences]
            /\ AdaptReturn(adapt'.rc)
            /\ log' = log
       ELSE \E avail \in SUBSET Keys :
            LET activePMPreferencesPS == adapt.activePMPreferences[adapt.psType]
            IN  /\ adapt' = [adapt EXCEPT
                      !.avail = avail,
                      !.mcActivePMPreferences =
                          CFDictionarySetValue(adapt.activePMPreferences,
                                               adapt.psType, activePMPreferencesPS),
                      !.mcActivePMPreferencesPS =
                          ApplyOverrides(activePMPreferencesPS,
                                         FeatureOverrides(revision), avail),
                      !.mcPMActiveProfiles =
                          CFDictionarySetValue(snap.activePMProfiles, adapt.psType,
                                               kIOPMCustomPowerProfile)]
                /\ refs' = CFRelease(
                              Acquire(refs, {"mcActivePMPreferences",
                                             "mcActivePMPreferencesPS",
                                             "mcPMActiveProfiles"}),
                              {"activePMPreferences", "mcActivePMPreferencesPS",
                               "psType"})
                /\ Call("IOPMFeatureIsAvailable")
                /\ pc' = "a_setcustom"
    /\ UNCHANGED <<revision, simulate, kern, gate, store, store0, providing,
                   snap, session, port, loopStopped, sleepResult, acked, issued,
                   psChanged, restore, stderr, exitCode>>

\* rc = IOPMSetCustomPMPreferences(mcActivePMPreferences)
AdaptSetCustomPMPreferences ==
    /\ pc = "a_setcustom"
    /\ Call("IOPMSetCustomPMPreferences")
    /\ \E ok \in BOOLEAN :
         IF ok
         THEN /\ store' = IOPMSetCustomPMPreferences(store, AdaptedPreferences(adapt))
              /\ refs' = CFRelease(refs, {"mcActivePMPreferences"})
              /\ pc' = "a_setprofiles"
              /\ adapt' = adapt
         ELSE /\ refs' = CFRelease(refs, {"mcActivePMPreferences",
                                           "mcPMActiveProfiles"})
              /\ adapt' = [adapt EXCEPT !.rc = kPMAdaptPreferencesErrorCustomPreferences]
              /\ AdaptReturn(adapt'.rc)
              /\ store' = store
    /\ UNCHANGED <<revision, simulate, kern, gate, store0, providing, snap,
                   session, port, loopStopped, sleepResult, acked, issued,
                   psChanged, restore, stderr, exitCode>>

\* a mutator that writes the snapshot's custom preferences back when the
\* profile selection is rejected
AdaptSetActivePowerProfiles_Rollback ==
    /\ pc = "a_setprofiles"
    /\ refs' = CFRelease(refs, {"mcPMActiveProfiles"})
    /\ \E ok \in BOOLEAN :
         IF ok
         THEN /\ store' = IOPMSetActivePowerProfiles(store, adapt.mcPMActiveProfiles)
              /\ adapt' = [adapt EXCEPT !.rc = kPMAdaptPreferencesSuccess]
              /\ Call("IOPMSetActivePowerProfiles")
         ELSE /\ adapt' = [adapt EXCEPT !.rc = kPMAdaptPreferencesErrorActiveProfiles]
              /\ store' = IOPMSetCustomPMPreferences(store, snap.customPMPreferences)
              /\ log' = log \o <<"IOPMSetActivePowerProfiles",
                                  "IOPMSetCustomPMPreferences">>
    /\ AdaptReturn(adapt'.rc)
    /\ UNCHANGED <<revision, simulate, kern, gate, store0, providing, snap,
                   session, port, loopStopped, sleepResult, acked, issued,
                   psChanged, restore, stderr, exitCode>>

\* rc = IOPMSetActivePowerProfiles(mcPMActiveProfiles)
AdaptSetActivePowerProfiles ==
    /\ pc = "a_setprofiles"
    /\ Call("IOPMSetActivePowerProfiles")
    /\ refs' = CFRelease(refs, {"mcPMActiveProfiles"})
    /\ \E ok \in BOOLEAN :
         IF ok
         THEN /\ store' = IOPMSetActivePowerProfiles(store, adapt.mcPMActiveProfiles)
              /\ adapt' = [adapt EXCEPT !.rc = kPMAdaptPreferencesSuccess]
         ELSE /\ adapt' = [adapt EXCEPT !.rc = kPMAdaptPreferencesErrorActiveProfiles]
              /\ store' = store
    /\ AdaptReturn(adapt'.rc)
    /\ UNCHANGED <<revision, simulate, kern, gate, store0, providing, snap,
                   session, port, loopStopped, sleepResult, acked, issued,
                   psChanged, restore, stderr, exitCode>>

\* the diagnostic of main for an rc of PMAdaptPreferences
AdaptDiagnostic(rc) ==
    CASE rc = kPMAdaptPreferencesErrorActiveProfiles ->
            "hibernate: setting active power management profiles failed"
      [] rc = kPMAdaptPreferencesErrorCustomPreferences ->
            "hiberate: setting custom power management preferences failed"
      [] rc = kPMAdaptPreferencesErrorPowerSource ->
            "hibernate: getting currently active power source type failed"
      [] OTHER ->
            "hibernate: getting active power management preferences failed"

\* main: if (rc != kPMAdaptPreferencesSuccess) { perror; return 3 }
MainAdaptPreferences ==
    /\ pc = "main_adapt"
    /\ IF adapt.rc # kPMAdaptPreferencesSuccess
       THEN /\ perror(AdaptDiagnostic(adapt.rc))
            /\ Return(kMainErrorPMAdaptPreferences)
       ELSE /\ pc' = "register"
            /\ UNCHANGED <<stderr, exitCode>>
    /\ UNCHANGED <<revision, simulate, kern, gate, store, store0, providing,
                   snap, adapt, refs, session, port, loopStopped, sleepResult,
                   acked, log, issued, psChanged, restore>>

----------------------------------------------------------------------------
(* The platform: power notifications and the providing power source.       *)

kIOMessageSystemWillSleep == "kIOMessageSystemWillSleep"
kIOMessageSystemHasPoweredOn == "kIOMessageSystemHasPoweredOn"
kIOMessageCanSystemSleep == "kIOMessageCanSystemSleep"
MessageTypes == {kIOMessageSystemWillSleep, kIOMessageSystemHasPoweredOn,
                 kIOMessageCanSystemSleep}

\* the positions of main at which it waits while the notifier is registered:
\* the two delays, the simulated sleep and the run loop
RegisteredAt == {"wait_before", "sim_sleep", "run_loop", "wait_after"}

\* the IOPMrootDomain sends a notification to the port; its argument is the
\* notification's own token
PlatformNotify ==
    /\ pc \in RegisteredAt
    /\ Len(issued) < MaxEvents
    /\ \E type \in MessageTypes :
         LET msg == [type |-> type, argument |-> Len(issued) + 1]
         IN  /\ port' = Append(port, msg)
             /\ issued' = Append(issued, msg)
    /\ UNCHANGED <<revision, simulate, pc, kern, gate, store, store0, providing,
                   snap, adapt, refs, session, loopStopped, sleepResult, acked,
                   log, psChanged, restore, stderr, exitCode>>

\* the providing power source changes between mutation and restore; nothing
\* reads it after PMAdaptPreferences, so one change right before the restore
\* stands for a change at any earlier point
PowerSourceChange ==
    /\ pc = "r_setcustom"
    /\ ~psChanged
    /\ \E s \in Sources \ {providing} : providing' = s
    /\ psChanged' = TRUE
    /\ UNCHANGED <<revision, simulate, pc, kern, gate, store, store0, snap,
                   adapt, refs, session, port, loopStopped, sleepResult, acked,
                   log, issued, restore, stderr, exitCode>>

----------------------------------------------------------------------------
(* Sleep orchestration in main.                                            *)

\* main: the objects released when registration fails
ReleasedOnRegisterFailure == {"customPMPreferences", "activePMProfiles"}

\* session = IORegisterForSystemPower(NULL, &port, callback, &notifier)
MainRegisterForSystemPower ==
    /\ pc = "register"
    /\ Call("IORegisterForSystemPower")
    /\ \E ok \in BOOLEAN :
         IF ok
         THEN /\ session' = 1
              /\ pc' = "setup"
              /\ UNCHANGED <<refs, stderr, exitCode>>
         ELSE /\ session' = 0
              /\ refs' = CFRelease(refs, ReleasedOnRegisterFailure)
              /\ perror("hibernate: connecting to the IOPMrootDomain failed")
              /\ Return(kMainErrorIOPMrootDomain)
    /\ UNCHANGED <<revision, simulate, kern, gate, store, store0, providing,
                   snap, adapt, port, loopStopped, sleepResult, acked, issued,
                   psChanged, restore>>

\* loop = CFRunLoopGetCurrent(); the observer and the source are added
MainSetupRunLoop ==
    /\ pc = "setup"
    /\ refs' = Acquire(refs, {"observer"})
    /\ pc' = "wait_before"
    /\ UNCHANGED <<revision, simulate, kern, gate, store, store0, providing,
                   snap, adapt, session, port, loopStopped, sleepResult, acked,
                   log, issued, psChanged, restore, stderr, exitCode>>

\* sleep(kWaitBeforeSystemSleep)
MainWaitBeforeSystemSleep ==
    /\ pc = "wait_before"
    /\ pc' = IF simulate THEN "sim_sleep" ELSE "run_entry"
    /\ UNCHANGED <<revision, simulate, kern, gate, store, store0, providing,
                   snap, adapt, refs, session, port, loopStopped, sleepResult,
                   acked, log, issued, psChanged, restore, stderr, exitCode>>

\* sleep(kSleepSeconds) instead of CFRunLoopRun()
MainSimulatedSleep ==
    /\ pc = "sim_sleep"
    /\ pc' = "wait_after"
    /\ UNCHANGED <<revision, simulate, kern, gate, store, store0, providing,
                   snap, adapt, refs, session, port, loopStopped, sleepResult,
                   acked, log, issued, psChanged, restore, stderr, exitCode>>

kIOReturnSuccess == "kIOReturnSuccess"
kIOReturnNotPrivileged == "kIOReturnNotPrivileged"
kIOReturnError == "kIOReturnError"
IOReturns == {kIOReturnSuccess, kIOReturnNotPrivileged, kIOReturnError}

\* the perror lines of RLObserverSleepSystem: the not-privileged case falls
\* through into the default case
SleepSystemDiagnostics(rc) ==
    CASE rc = kIOReturnSuccess -> <<>>
      [] rc = kIOReturnNotPrivileged ->
            <<"hibernate: must be run as root",
              "hibernate: failed to initiate system sleep">>
      [] OTHER -> <<"hibernate: failed to initiate system sleep">>

\* an observer that stops the run loop whatever IOPMSleepSystem returned
SleepSystemStopsLoop_Always(rc) == rc \in IOReturns

\* whether RLObserverSleepSystem stops the run loop
SleepSystemStopsLoop(rc) == rc # kIOReturnSuccess

\* CFRunLoopRun() is entered and the kCFRunLoopEntry observer fires:
\* RLObserverSleepSystem
RLObserverSleepSystem ==
    /\ pc = "run_entry"
    /\ Call("IOPMSleepSystem")
    /\ \E rc \in IOReturns :
         /\ sleepResult' = rc
         /\ stderr' = stderr \o SleepSystemDiagnostics(rc)
         /\ loopStopped' = SleepSystemStopsLoop(rc)
    /\ pc' = "run_loop"
    /\ UNCHANGED <<revision, simulate, kern, gate, store, store0, providing,
                   snap, adapt, refs, session, port, acked, issued, psChanged,
                   restore, exitCode>>

\* a callback with a default case that stops the run loop
CallbackStopsLoop_Default(type) == type # kIOMessageSystemWillSleep

\* a callback without the has-powered-on case
CallbackStopsLoop_Never(type) == type \notin MessageTypes

\* IOPowerNotificationCallback: whether the message stops the run loop
CallbackStopsLoop(type) == type = kIOMessageSystemHasPoweredOn

\* a callback that acknowledges whatever it is called with
CallbackAllowsPowerChange_Any(type) == type \in MessageTypes

\* IOPowerNotificationCallback: whether the message is acknowledged
CallbackAllowsPowerChange(type) == type = kIOMessageSystemWillSleep

\* the run loop takes the next message of the port and calls
\* IOPowerNotificationCallback(context, service, type, argument)
IOPowerNotificationCallback ==
    /\ pc = "run_loop"
    /\ ~loopStopped
    /\ port # <<>>
    /\ LET msg == Head(port)
       IN  /\ port' = Tail(port)
           /\ loopStopped' = CallbackStopsLoop(msg.type)
           /\ IF CallbackAllowsPowerChange(msg.type)
              THEN /\ acked' = Append(acked, msg.argument)
                   /\ log' = log \o <<msg.type, "IOAllowPowerChange">>
              ELSE /\ acked' = acked
                   /\ log' = Append(log, msg.type)
    /\ UNCHANGED <<revision, simulate, pc, kern, gate, store, store0, providing,
                   snap, adapt, refs, session, sleepResult, issued, psChanged,
                   restore, stderr, exitCode>>

\* a main that enters the run loop once more when the sleep request failed
MainRunLoopReturns_Retry ==
    /\ pc = "run_loop"
    /\ loopStopped
    /\ pc' = IF /\ SleepSystemStopsLoop(sleepResult)
                /\ Len(SelectSeq(log, LAMBDA c : c = "IOPMSleepSystem")) < 2
             THEN "run_entry" ELSE "wait_after"
    /\ UNCHANGED <<revision, simulate, kern, gate, store, store0, providing,
                   snap, adapt, refs, session, port, loopStopped, sleepResult,
                   acked, log, issued, psChanged, restore, stderr, exitCode>>

\* CFRunLoopRun() returns once the loop was stopped
MainRunLoopReturns ==
    /\ pc = "run_loop"
    /\ loopStopped
    /\ pc' = "wait_after"
    /\ UNCHANGED <<revision, simulate, kern, gate, store, store0, providing,
                   snap, adapt, refs, session, port, loopStopped, sleepResult,
                   acked, log, issued, psChanged, restore, stderr, exitCode>>

\* sleep(kWaitAfterSystemSleep)
MainWaitAfterSystemSleep ==
    /\ pc = "wait_after"
    /\ pc' = "clear"
    /\ UNCHANGED <<revision, simulate, kern, gate, store, store0, providing,
                   snap, adapt, refs, session, port, loopStopped, sleepResult,
                   acked, log, issued, psChanged, restore, stderr, exitCode>>

\* the objects main releases when it clears the run loop: main.c also releases
\* the source it got from IONotificationPortGetRunLoopSource
ClearedObjects(rev) ==
    IF rev = "hibernate.c" THEN {"observer"} ELSE {"observer", "source"}

\* CFRunLoopRemoveObserver, CFRelease(observer), CFRunLoopRemoveSource
MainClearRunLoop ==
    /\ pc = "clear"
    /\ refs' = CFRelease(refs, ClearedObjects(revision))
    /\ pc' = "deregister"
    /\ UNCHANGED <<revision, simulate, kern, gate, store, store0, providing,
                   snap, adapt, session, port, loopStopped, sleepResult, acked,
                   log, issued, psChanged, restore, stderr, exitCode>>

\* a teardown that leaves out IOServiceClose
AfterTeardown_NoClose(rev, call) ==
    IF rev = "hibernate.c"
    THEN CASE call = "deregister" -> "destroy"
           [] OTHER -> "r_setcustom"
    ELSE CASE call = "deregister" -> "destroy"
           [] OTHER -> "r_setcustom"

\* the statement of main that follows a teardown call: hibernate.c closes the
\* session and then destroys the port, main.c destroys the port first
AfterTeardown(rev, call) ==
    IF rev = "hibernate.c"
    THEN CASE call = "deregister" -> "close"
           [] call = "close" -> "destroy"
           [] OTHER -> "r_setcustom"
    ELSE CASE call = "deregister" -> "destroy"
           [] call = "destroy" -> "close"
           [] OTHER -> "r_setcustom"

\* IODeregisterForSystemPower(&notifier)
MainDeregisterForSystemPower ==
    /\ pc = "deregister"
    /\ Call("IODeregisterForSystemPower")
    /\ pc' = AfterTeardown(revision, "deregister")
    /\ UNCHANGED <<revision, simulate, kern, gate, store, store0, providing,
                   snap, adapt, refs, session, port, loopStopped, sleepResult,
                   acked, issued, psChanged, restore, stderr, exitCode>>

\* IOServiceClose(session)
MainServiceClose ==
    /\ pc = "close"
    /\ Call("IOServiceClose")
    /\ pc' = AfterTeardown(revision, "close")
    /\ UNCHANGED <<revision, simulate, kern, gate, store, store0, providing,
                   snap, adapt, refs, session, port, loopStopped, sleepResult,
                   acked, issued, psChanged, restore, stderr, exitCode>>

\* what IONotificationPortDestroy(port) can do: it releases the run loop
\* source of the port, which is a dangling reference when the code has
\* released the source it does not own
PortDestroyOutcomes(r) ==
    IF r["source"].rel > r["source"].acq THEN {"fault", "returns"}
    ELSE {"returns"}

\* IONotificationPortDestroy(port)
MainNotificationPortDestroy ==
    /\ pc = "destroy"
    /\ Call("IONotificationPortDestroy")
    /\ port' = <<>>
    /\ \E outcome \in PortDestroyOutcomes(refs) :
         IF outcome = "fault"
         THEN Crash
         ELSE /\ pc' = AfterTeardown(revision, "destroy")
              /\ exitCode' = exitCode
    /\ UNCHANGED <<revision, simulate, kern, gate, store, store0, providing,
                   snap, adapt, refs, session, loopStopped, sleepResult, acked,
                   issued, psChanged, restore, stderr>>

----------------------------------------------------------------------------
(* PMRestorePreferences and the end of main.                               *)

\* the dictionary PMRestorePreferences passes to IOPMSetCustomPMPreferences
RestoredPreferences(sn) == sn.customPMPreferences

\* the dictionary PMRestorePreferences passes to IOPMSetActivePowerProfiles
RestoredProfiles(sn) == sn.activePMProfiles

\* a restorer that goes on to the profile selection when its first write was
\* rejected
RestoreSetCustomPMPreferences_Continue ==
    /\ pc = "r_setcustom"
    /\ Call("IOPMSetCustomPMPreferences")
    /\ \E ok \in BOOLEAN :
         IF ok
         THEN store' = IOPMSetCustomPMPreferences(store, RestoredPreferences(snap))
         ELSE store' = store
    /\ pc' = "r_setprofiles"
    /\ restore' = restore
    /\ UNCHANGED <<revision, simulate, kern, gate, store0, providing, snap,
                   adapt, refs, session, port, loopStopped, sleepResult, acked,
                   issued, psChanged, stderr, exitCode>>

\* if (IOPMSetCustomPMPreferences(customPMPreferences) != kIOReturnSuccess)
\*     return kPMRestorePreferencesErrorCustomPreferences
RestoreSetCustomPMPreferences ==
    /\ pc = "r_setcustom"
    /\ Call("IOPMSetCustomPMPreferences")
    /\ \E ok \in BOOLEAN :
         IF ok
         THEN /\ store' = IOPMSetCustomPMPreferences(store, RestoredPreferences(snap))
              /\ pc' = "r_setprofiles"
              /\ restore' = restore
         ELSE /\ restore' = kPMRestorePreferencesErrorCustomPreferences
              /\ pc' = "main_restore"
              /\ store' = store
    /\ UNCHANGED <<revision, simulate, kern, gate, store0, providing, snap,
                   adapt, refs, session, port, loopStopped, sleepResult, acked,
                   issued, psChanged, stderr, exitCode>>

\* if (IOPMSetActivePowerProfiles(activePMProfiles) != kIOReturnSuccess)
\*     return kPMRestorePreferencesErrorActiveProfiles
RestoreSetActivePowerProfiles ==
    /\ pc = "r_setprofiles"
    /\ Call("IOPMSetActivePowerProfiles")
    /\ \E ok \in BOOLEAN :
         IF ok
         THEN /\ store' = IOPMSetActivePowerProfiles(store, RestoredProfiles(snap))
              /\ restore' = kPMRestorePreferencesSuccess
         ELSE /\ restore' = kPMRestorePreferencesErrorActiveProfiles
              /\ store' = store
    /\ pc' = "main_restore"
    /\ UNCHANGED <<revision, simulate, kern, gate, store0, providing, snap,
                   adapt, refs, session, port, loopStopped, sleepResult, acked,
                   issued, psChanged, stderr, exitCode>>

\* the diagnostic of main for an rc of PMRestorePreferences
RestoreDiagnostic(rc) ==
    IF rc = kPMRestorePreferencesErrorCustomPreferences
    THEN "hibernate: restoring custom power management preferences failed"
    ELSE "hibernate: restoring active power management profiles failed"

\* a failed restore reported with the exit value of a failed mutation
MainRestoreExit_AdaptCode(rc) ==
    IF rc # kPMRestorePreferencesSuccess THEN kMainErrorPMAdaptPreferences
    ELSE kMainSuccess

\* the value main returns for an rc of PMRestorePreferences
MainRestoreExit(rc) ==
    IF rc # kPMRestorePreferencesSuccess THEN kMainErrorPMRestorePreferences
    ELSE kMainSuccess

\* a release of one of the two snapshot dictionaries only
ReleasedAfterRestore_CustomOnly == {"customPMPreferences"}

\* main: the objects released after PMRestorePreferences returned
ReleasedAfterRestore == {"customPMPreferences", "activePMProfiles"}

\* main: the snapshot is released; if (rc != kPMRestorePreferencesSuccess)
\* { perror; return 4 } return 0
MainRestorePreferences ==
    /\ pc = "main_restore"
    /\ refs' = CFRelease(refs, ReleasedAfterRestore)
    /\ stderr' = IF restore # kPMRestorePreferencesSuccess
                 THEN Append(stderr, RestoreDiagnostic(restore))
                 ELSE stderr
    /\ Return(MainRestoreExit(restore))
    /\ UNCHANGED <<revision, simulate, kern, gate, store, store0, providing,
                   snap, adapt, session, port, loopStopped, sleepResult, acked,
                   log, issued, psChanged, restore>>

----------------------------------------------------------------------------

Next ==
    \/ CheckOSRelease
    \/ MainCheckOSRelease
    \/ AdaptCopyActivePowerProfiles
    \/ AdaptCopyCustomPMPreferences
    \/ AdaptCopyPowerSourcesInfo
    \/ AdaptGetProvidingPowerSourceType
    \/ AdaptCopyActivePMPreferences
    \/ AdaptBuild
    \/ AdaptSetCustomPMPreferences
    \/ AdaptSetActivePowerProfiles
    \/ MainAdaptPreferences
    \/ MainRegisterForSystemPower
    \/ MainSetupRunLoop
    \/ MainWaitBeforeSystemSleep
    \/ MainSimulatedSleep
    \/ RLObserverSleepSystem
    \/ IOPowerNotificationCallback
    \/ MainRunLoopReturns
    \/ MainWaitAfterSystemSleep
    \/ MainClearRunLoop
    \/ MainDeregisterForSystemPower
    \/ MainServiceClose
    \/ MainNotificationPortDestroy
    \/ MainRestorePreferences
    \/ RestoreSetCustomPMPreferences
    \/ RestoreSetActivePowerProfiles
    \/ PlatformNotify
    \/ PowerSourceChange

Spec == Init /\ [][Next]_vars

----------------------------------------------------------------------------
(* Properties.                                                             *)

\* how often name occurs in a sequence
RECURSIVE CountIn(_, _)
CountIn(seq, name) ==
    IF seq = <<>> THEN 0
    ELSE (IF Head(seq) = name THEN 1 ELSE 0) + CountIn(Tail(seq), name)

\* how often the platform call was made
Count(name) == Cardinality({i \in 1..Len(log) : log[i] = name})

Called(name) == \E i \in 1..Len(log) : log[i] = name

\* call a was made before every call b
Before(a, b) ==
    \A j \in 1..Len(log) : log[j] = b => \E i \in 1..(j - 1) : log[i] = a

Returned == pc = "done"

\* the store as PMAdaptPreferences leaves it when both writes are accepted
AdaptedStore ==
    [custom |-> AdaptedPreferences(adapt), profiles |-> adapt.mcPMActiveProfiles]

AdaptSucceeded == adapt.rc = kPMAdaptPreferencesSuccess

RegistrationFailed == Called("IORegisterForSystemPower") /\ session = 0

\* PMRestorePreferences has issued its first write
RestoreStarted == Count("IOPMSetCustomPMPreferences") > 1

WillSleepTokens ==
    {issued[i].argument : i \in {j \in 1..Len(issued) :
                                    issued[j].type = kIOMessageSystemWillSleep}}

AckedTokens == {acked[i] : i \in 1..Len(acked)}

\* C1: when main has returned, the preference store equals its content at
\* start, or the restore was attempted and rejected and main returned 4.
C1_NoStrandedPreferences ==
    Returned =>
        \/ store = store0
        \/ /\ exitCode = kMainErrorPMRestorePreferences
           /\ restore \in {kPMRestorePreferencesErrorCustomPreferences,
                           kPMRestorePreferencesErrorActiveProfiles}

\* C2: once PMRestorePreferences has returned success on the snapshot that
\* PMAdaptPreferences took, the store equals the store at start, whatever the
\* power source, the available features and the power source at restore time.
C2_RoundTrip ==
    restore = kPMRestorePreferencesSuccess => store = store0

\* C2 witness: the round trip was run on a store that the mutation changed in
\* both parts, and the providing power source changed in between.
C2_Witness ==
    /\ restore = kPMRestorePreferencesSuccess
    /\ AdaptedStore.custom # store0.custom
    /\ AdaptedStore.profiles # store0.profiles
    /\ psChanged
    /\ providing # adapt.psType

\* C3: main returns 1 iff the gate did not pass, 3 iff the gate passed and
\* PMAdaptPreferences returned an error, 2 iff the mutation succeeded and the
\* registration returned an empty session, 4 iff PMRestorePreferences returned
\* an error, 0 iff all succeeded; it returns nothing else, and no phase starts
\* after an earlier phase failed.
C3_ExitCodes ==
    /\ Returned =>
        /\ exitCode \in 0..4
        /\ exitCode = kMainErrorOSRelease <=> gate # kCheckOSReleaseSupported
        /\ exitCode = kMainErrorPMAdaptPreferences <=>
              (gate = kCheckOSReleaseSupported
               /\ adapt.rc \notin {NoRc, kPMAdaptPreferencesSuccess})
        /\ exitCode = kMainErrorIOPMrootDomain <=>
              (AdaptSucceeded /\ RegistrationFailed)
        /\ exitCode = kMainErrorPMRestorePreferences <=>
              (Called("IODeregisterForSystemPower")
               /\ restore \notin {NoRc, kPMRestorePreferencesSuccess})
        /\ exitCode = kMainSuccess <=>
              (gate = kCheckOSReleaseSupported /\ AdaptSucceeded
               /\ session # 0 /\ restore = kPMRestorePreferencesSuccess)
    /\ log # <<>> => gate = kCheckOSReleaseSupported
    /\ Called("IORegisterForSystemPower") => AdaptSucceeded
    /\ (Called("IOPMSleepSystem") \/ Called("IODeregisterForSystemPower")
        \/ RestoreStarted \/ restore # NoRc) => session # 0

\* C3 witness: a run that returned 4 after a rejected restore.
C3_Witness ==
    /\ Returned
    /\ exitCode = kMainErrorPMRestorePreferences
    /\ restore = kPMRestorePreferencesErrorActiveProfiles

\* C4: when the registration fails after a successful mutation, main returns 2
\* and the store equals the original store when it returns.
C4_RestoredOnRegistrationFailure ==
    (Returned /\ AdaptSucceeded /\ RegistrationFailed) =>
        /\ exitCode = kMainErrorIOPMrootDomain
        /\ store = store0

\* C5: once the registration is torn down, every will-sleep notification the
\* platform issued has been answered by IOAllowPowerChange with its token.
C5_WillSleepAcknowledged ==
    Called("IODeregisterForSystemPower") => WillSleepTokens \subseteq AckedTokens

\* C6: in real-sleep mode, when IOPMSleepSystem returned success, the restore
\* and the teardown of the registration start only after the callback handled
\* a has-powered-on message; and from the end of a successful
\* PMAdaptPreferences until the restore the store holds the mutated
\* configuration.
C6_NoPrematureRestore ==
    /\ (~simulate /\ sleepResult = kIOReturnSuccess
        /\ (RestoreStarted \/ restore # NoRc
            \/ Called("IODeregisterForSystemPower") \/ Called("IOServiceClose")
            \/ Called("IONotificationPortDestroy")))
         => /\ Called(kIOMessageSystemHasPoweredOn)
            /\ Before(kIOMessageSystemHasPoweredOn, "IODeregisterForSystemPower")
    /\ (AdaptSucceeded /\ ~RestoreStarted) => store = AdaptedStore

\* C6 witness: a real sleep that was requested with success and whose restore
\* has been run.
C6_Witness ==
    /\ ~simulate
    /\ sleepResult = kIOReturnSuccess
    /\ restore = kPMRestorePreferencesSuccess
    /\ AdaptedStore # store0

\* C7: IODeregisterForSystemPower and IOServiceClose are called exactly once
\* before main returns when the registration succeeded and never otherwise,
\* and neither IOPMSleepSystem nor IOAllowPowerChange is called after
\* IOServiceClose.
C7_HandlesClosedOnce ==
    /\ Count("IODeregisterForSystemPower") <= 1
    /\ Count("IOServiceClose") <= 1
    /\ (Returned /\ session # 0) =>
          /\ Count("IODeregisterForSystemPower") = 1
          /\ Count("IOServiceClose") = 1
    /\ session = 0 =>
          /\ ~Called("IODeregisterForSystemPower")
          /\ ~Called("IOServiceClose")
    /\ \A i \in 1..Len(log) : log[i] = "IOServiceClose" =>
          \A j \in (i + 1)..Len(log) :
              log[j] \notin {"IOPMSleepSystem", "IOAllowPowerChange"}

\* C7 witness: main returned after a failed sleep request and a rejected
\* restore, with the registration torn down.
C7_Witness ==
    /\ Returned
    /\ session # 0
    /\ sleepResult = kIOReturnNotPrivileged
    /\ exitCode = kMainErrorPMRestorePreferences
    /\ Called("IOAllowPowerChange") = FALSE

\* C8: after a successful PMAdaptPreferences the two snapshot dictionaries
\* keep the content captured before the mutation, are passed to
\* PMRestorePreferences at most once, are never released more often than
\* acquired, and each has been released exactly once when main returns.
C8_SnapshotSingleUse ==
    /\ AdaptSucceeded =>
          /\ snap.held = {"activePMProfiles", "customPMPreferences"}
          /\ snap.activePMProfiles = store0.profiles
          /\ snap.customPMPreferences = store0.custom
          /\ Count("IOPMSetCustomPMPreferences") <= 2
          /\ Count("IOPMSetActivePowerProfiles") <= 2
          /\ \A o \in snap.held : refs[o].acq = 1 /\ refs[o].rel <= 1
    /\ (AdaptSucceeded /\ Returned) => \A o \in snap.held : refs[o].rel = 1

\* C8 witness: main returned after the first restoring write was rejected,
\* with both snapshot dictionaries released once.
C8_Witness ==
    /\ Returned
    /\ AdaptSucceeded
    /\ restore = kPMRestorePreferencesErrorCustomPreferences
    /\ \A o \in snap.held : refs[o].rel = 1

\* C9: no platform call (store read or write, registration, sleep request) is
\* made unless CheckOSRelease returned Supported; when it returned Unsupported
\* or Error main returns 1 and the store is unchanged.
C9_GateFirst ==
    /\ (log # <<>> \/ session # 0 \/ sleepResult # "none" \/ store # store0)
          => gate = kCheckOSReleaseSupported
    /\ (Returned /\ gate \in {kCheckOSReleaseUnsupported, kCheckOSReleaseError})
          => /\ exitCode = kMainErrorOSRelease
             /\ store = store0
             /\ log = <<>>

\* C9 witness: main returned on an unsupported release.
C9_Witness ==
    /\ Returned
    /\ gate = kCheckOSReleaseUnsupported
    /\ exitCode = kMainErrorOSRelease

\* C10: CheckOSRelease returns Error iff one of the two sysctl calls fails;
\* when both succeed it returns Unsupported iff the kernel's major release is
\* below 10 and Supported iff it is 10 or above; one of the three results is
\* returned for every input, and an unsupported release makes main return 1.
C10_Trichotomy ==
    /\ pc = "main_gate" =>
          /\ gate \in {kCheckOSReleaseSupported, kCheckOSReleaseUnsupported,
                       kCheckOSReleaseError}
          /\ gate = kCheckOSReleaseError <=> (~kern.probe \/ ~kern.read)
          /\ (kern.probe /\ kern.read) =>
                /\ gate = kCheckOSReleaseUnsupported <=> kern.major < 10
                /\ gate = kCheckOSReleaseSupported <=> kern.major >= 10
    /\ (Returned /\ kern.read /\ kern.major < 10) =>
          /\ gate = kCheckOSReleaseUnsupported
          /\ exitCode = kMainErrorOSRelease

\* C10 witness: a kernel of release 9.x made main return 1.
C10_Witness ==
    /\ Returned
    /\ kern.read
    /\ kern.major = 9
    /\ gate = kCheckOSReleaseUnsupported
    /\ exitCode = kMainErrorOSRelease

\* PMAdaptPreferences has built the configuration it activates
AdaptBuilt == Called("IOPMFeatureIsAvailable")

\* the features IOPMFeatureIsAvailable reported available to the code
ReportedAvailable == adapt.avail \cap FeatureKeys(revision)

\* the fixed value an override gives its feature
OverrideValue(k) ==
    CASE k = kIOHibernateModeKey -> kHibernateMode
      [] k = kIOPMDeepSleepEnabledKey -> kStandby
      [] OTHER -> kWakeOnLAN

\* the first write of PMAdaptPreferences was accepted and nothing was written
\* since
AdaptWroteCustom ==
    pc = "a_setprofiles" /\ Count("IOPMSetCustomPMPreferences") = 1

\* C11: the configuration PMAdaptPreferences passes to
\* IOPMSetCustomPMPreferences equals the active preferences it read, except
\* under the providing power source, where exactly the features reported
\* available hold their fixed values and every other key is neither added nor
\* altered; the entries of other power sources are unchanged; an unavailable
\* feature is no error; and the accepted write stores this configuration,
\* overrides included.
C11_AvailabilityFrame ==
    /\ AdaptBuilt =>
          LET read == adapt.activePMPreferences
              passed == AdaptedPreferences(adapt)
              ps == adapt.psType
          IN  /\ read = IOPMCopyActivePMPreferences(store0)
              /\ DOMAIN passed = DOMAIN read
              /\ \A s \in DOMAIN read \ {ps} : passed[s] = read[s]
              /\ \A k \in ReportedAvailable :
                    /\ k \in DOMAIN passed[ps]
                    /\ passed[ps][k] = OverrideValue(k)
              /\ \A k \in Keys \ ReportedAvailable :
                    /\ k \in DOMAIN passed[ps] <=> k \in DOMAIN read[ps]
                    /\ k \in DOMAIN read[ps] => passed[ps][k] = read[ps][k]
              /\ DOMAIN passed[ps] \subseteq Keys
              /\ adapt.rc \in {NoRc, kPMAdaptPreferencesSuccess,
                               kPMAdaptPreferencesErrorCustomPreferences,
                               kPMAdaptPreferencesErrorActiveProfiles}
    /\ AdaptWroteCustom => store.custom = AdaptedPreferences(adapt)

\* C11 witness: the write was accepted with one feature available and
\* overridden, another unavailable and left at a value its override would have
\* changed, and a second power source whose entry was carried over.
C11_Witness ==
    /\ AdaptWroteCustom
    /\ ReportedAvailable = {kIOHibernateModeKey}
    /\ DOMAIN store.custom = Sources
    /\ DOMAIN adapt.activePMPreferences[adapt.psType] = Keys
    /\ adapt.activePMPreferences[adapt.psType][kIOHibernateModeKey]
          # kHibernateMode
    /\ store.custom[adapt.psType][kIOHibernateModeKey] = kHibernateMode
    /\ store.custom[adapt.psType][kIOPMWakeOnLANKey] = 1

\* the features the platform has for the power source include all three
AllFeaturesAvailable == Keys \subseteq adapt.avail

\* C12: whenever hibernate mode, standby and wake on LAN are all available for
\* the providing power source, the configuration PMAdaptPreferences activates
\* has hibernate mode on, standby 0 and wake on LAN 0 under that source, in
\* both revisions.
C12_AllOverridesApplied ==
    (AdaptSucceeded /\ AllFeaturesAvailable) =>
        LET activated == AdaptedStore.custom[adapt.psType]
        IN  /\ Keys \subseteq DOMAIN activated
            /\ activated[kIOHibernateModeKey] = kHibernateMode
            /\ activated[kIOPMDeepSleepEnabledKey] = kStandby
            /\ activated[kIOPMWakeOnLANKey] = kWakeOnLAN

\* IOPMSleepSystem was called and returned something other than success
SleepRequestFailed == sleepResult \in IOReturns \ {kIOReturnSuccess}

\* C13: a run in which IOPMSleepSystem failed, so that the machine never
\* slept, does not return 0.
C13_FailedSleepNotSuccess ==
    (Returned /\ SleepRequestFailed) => exitCode # kMainSuccess

\* PMAdaptPreferences returned an error from a step up to and including its
\* call of IOPMSetCustomPMPreferences: every error but the one of its last
\* step, which shares its value with the error of its first step
AdaptFailedBeforeActivation ==
    \/ adapt.rc \in {kPMAdaptPreferencesErrorCustomPreferences,
                     kPMAdaptPreferencesErrorPowerSource,
                     kPMAdaptPreferencesErrorActivePreferences}
    \/ /\ adapt.rc = kPMAdaptPreferencesErrorActiveProfiles
       /\ ~Called("IOPMCopyCustomPMPreferences")

\* C14: when PMAdaptPreferences fails at a step up to and including its call
\* of IOPMSetCustomPMPreferences, IOPMSetActivePowerProfiles is never called,
\* the notifier is not registered and no sleep is requested, the store keeps
\* its initial content, and main returns 3 after one diagnostic.
C14_AdaptFailureContained ==
    AdaptFailedBeforeActivation =>
        /\ ~Called("IOPMSetActivePowerProfiles")
        /\ Count("IOPMSetCustomPMPreferences") <= 1
        /\ ~Called("IORegisterForSystemPower")
        /\ ~Called("IOPMSleepSystem")
        /\ sleepResult = "none"
        /\ restore = NoRc
        /\ store = store0
        /\ pc \in {"main_adapt", "done"}
        /\ Returned =>
              /\ exitCode = kMainErrorPMAdaptPreferences
              /\ stderr = <<AdaptDiagnostic(adapt.rc)>>

\* C14 witness: main returned 3 after IOPMSetCustomPMPreferences rejected a
\* configuration that differs from the stored custom preferences.
C14_Witness ==
    /\ Returned
    /\ adapt.rc = kPMAdaptPreferencesErrorCustomPreferences
    /\ Count("IOPMSetCustomPMPreferences") = 1
    /\ AdaptedPreferences(adapt) # store0.custom
    /\ exitCode = kMainErrorPMAdaptPreferences

\* main has ended: it returned or the process was killed
Ended == pc \in {"done", "crashed"}

\* no call of the run so far reported a failure
NoFailureReported ==
    /\ gate = kCheckOSReleaseSupported
    /\ AdaptSucceeded
    /\ session # 0
    /\ restore \in {NoRc, kPMRestorePreferencesSuccess}

\* IOPowerNotificationCallback has run
CallbackRan == \E i \in 1..Len(log) : log[i] \in MessageTypes

\* C15: in a simulated-sleep build IOPMSleepSystem is never called and the
\* power-event callback never runs; and a simulated-sleep run in which no call
\* reported a failure ends, whatever the platform sent, by main returning 0
\* with the store equal to the store at start.
C15_SimulatedRun ==
    /\ simulate =>
          /\ ~Called("IOPMSleepSystem")
          /\ sleepResult = "none"
          /\ ~CallbackRan
          /\ acked = <<>>
    /\ (simulate /\ Ended /\ NoFailureReported) =>
          /\ Returned
          /\ exitCode = kMainSuccess
          /\ store = store0

\* PMAdaptPreferences as a function of the store, for the providing power
\* source ps and the available features avail, when every call succeeds
PMAdaptPreferences(st, ps, avail, rev) ==
    LET activePMPreferences == IOPMCopyActivePMPreferences(st)
        activePMPreferencesPS == activePMPreferences[ps]
    IN  [custom |->
            Deref(CFDictionarySetValue(activePMPreferences, ps,
                                       activePMPreferencesPS),
                  ps,
                  ApplyOverrides(activePMPreferencesPS, FeatureOverrides(rev),
                                 avail)),
         profiles |->
            CFDictionarySetValue(IOPMCopyActivePowerProfiles(st), ps,
                                 kIOPMCustomPowerProfile)]

\* C16: applying the override list to a per-source configuration that already
\* had it applied changes nothing; and PMAdaptPreferences run a second time on
\* the store a first successful run produced, with the same power source and
\* the same available features, activates the same preferences and the same
\* profile selection.
C16_Idempotent ==
    AdaptSucceeded =>
        LET ps == adapt.psType
            once == PMAdaptPreferences(store0, ps, adapt.avail, revision)
            twice == PMAdaptPreferences(once, ps, adapt.avail, revision)
        IN  /\ AdaptedStore = once
            /\ twice = once
            /\ IOPMCopyActivePMPreferences(twice)
                  = IOPMCopyActivePMPreferences(once)
            /\ ApplyOverrides(once.custom[ps], FeatureOverrides(revision),
                              adapt.avail) = once.custom[ps]

\* C16 witness: a successful run with every feature available that changed
\* the custom preferences and the profile selection, on active preferences in
\* which the overrides change hibernate mode and standby.
C16_Witness ==
    /\ AdaptSucceeded
    /\ adapt.avail = Keys
    /\ AdaptedStore.custom # store0.custom
    /\ AdaptedStore.profiles # store0.profiles
    /\ adapt.activePMPreferences[adapt.psType] = PresetPrefs(0)
    /\ DOMAIN store0.custom = Sources

\* C17: IOPMSleepSystem is called at most once, only in a real-sleep build and
\* only after both writes of PMAdaptPreferences, custom preferences before
\* profile selection, and IORegisterForSystemPower have succeeded; it is not
\* called again after it failed; and no preference write is issued again
\* after it was rejected.
C17_SleepRequestedOnce ==
    /\ Count("IOPMSleepSystem") <= 1
    /\ Called("IOPMSleepSystem") =>
          /\ ~simulate
          /\ AdaptSucceeded
          /\ session # 0
          /\ Before("IOPMSetCustomPMPreferences", "IOPMSleepSystem")
          /\ Before("IOPMSetActivePowerProfiles", "IOPMSleepSystem")
          /\ Before("IORegisterForSystemPower", "IOPMSleepSystem")
    /\ Before("IOPMSetCustomPMPreferences", "IOPMSetActivePowerProfiles")
    /\ Count("IORegisterForSystemPower") <= 1
    /\ adapt.rc \notin {NoRc, kPMAdaptPreferencesSuccess} =>
          /\ Count("IOPMSetCustomPMPreferences") <= 1
          /\ Count("IOPMSetActivePowerProfiles") <= 1
    /\ Count("IOPMSetCustomPMPreferences") <= 2
    /\ Count("IOPMSetActivePowerProfiles") <= 2
    /\ restore = kPMRestorePreferencesErrorCustomPreferences =>
          /\ Count("IOPMSetCustomPMPreferences") = 2
          /\ Count("IOPMSetActivePowerProfiles") = 1
    /\ restore = kPMRestorePreferencesErrorActiveProfiles =>
          /\ Count("IOPMSetCustomPMPreferences") = 2
          /\ Count("IOPMSetActivePowerProfiles") = 2

\* C17 witness: main returned after a sleep request that failed and was made
\* once, and after a restoring write that was rejected and made once.
C17_Witness ==
    /\ Returned
    /\ sleepResult = kIOReturnError
    /\ Count("IOPMSleepSystem") = 1
    /\ restore = kPMRestorePreferencesErrorCustomPreferences
    /\ Count("IOPMSetCustomPMPreferences") = 2

----------------------------------------------------------------------------
(* Termination.  The steps of the program are taken as long as they are    *)
(* enabled: main is sequential code and the run loop dispatches every      *)
(* message queued on the port.  The platform owes nothing: no notification *)
(* and no change of the power source is ever forced.                       *)

\* the stores the termination runs start on: settings for both sources and a
\* preset profile selected for each
LiveStores ==
    {st \in InitStores :
        /\ DOMAIN st.custom = Sources
        /\ st.profiles = [s \in Sources |-> 0]}

LiveInit ==
    /\ Init
    /\ store \in LiveStores

\* a step of the program, as opposed to a step of the platform
ProgramStep ==
    \/ CheckOSRelease
    \/ MainCheckOSRelease
    \/ AdaptCopyActivePowerProfiles
    \/ AdaptCopyCustomPMPreferences
    \/ AdaptCopyPowerSourcesInfo
    \/ AdaptGetProvidingPowerSourceType
    \/ AdaptCopyActivePMPreferences
    \/ AdaptBuild
    \/ AdaptSetCustomPMPreferences
    \/ AdaptSetActivePowerProfiles
    \/ MainAdaptPreferences
    \/ MainRegisterForSystemPower
    \/ MainSetupRunLoop
    \/ MainWaitBeforeSystemSleep
    \/ MainSimulatedSleep
    \/ RLObserverSleepSystem
    \/ IOPowerNotificationCallback
    \/ MainRunLoopReturns
    \/ MainWaitAfterSystemSleep
    \/ MainClearRunLoop
    \/ MainDeregisterForSystemPower
    \/ MainServiceClose
    \/ MainNotificationPortDestroy
    \/ MainRestorePreferences
    \/ RestoreSetCustomPMPreferences
    \/ RestoreSetActivePowerProfiles

LiveSpec == LiveInit /\ [][Next]_vars /\ WF_vars(ProgramStep)

\* the platform has sent a has-powered-on notification to the port
WakeIssued ==
    \E i \in 1..Len(issued) : issued[i].type = kIOMessageSystemHasPoweredOn

\* PMRestorePreferences was called once and has returned
RestoreAttemptedOnce ==
    /\ Count("IOPMSetCustomPMPreferences") = 2
    /\ restore # NoRc

\* C18: in a real-sleep build, if no platform call faults and a has-powered-on
\* notification is eventually sent whenever IOPMSleepSystem succeeded, then
\* once the sleep was requested main eventually returns having called
\* PMRestorePreferences once; after a failed request it does so without any
\* notification.  And as long as the request succeeded and no has-powered-on
\* notification was sent, main has neither started the restore nor returned.
C18_TerminationAfterWake ==
    /\ ( /\ [](pc # "crashed")
         /\ [](sleepResult = kIOReturnSuccess => <>WakeIssued) )
       => []((~simulate /\ Called("IOPMSleepSystem"))
                => <>(Returned /\ RestoreAttemptedOnce))
    /\ []((~simulate /\ sleepResult = kIOReturnSuccess /\ ~WakeIssued)
             => (~RestoreStarted /\ restore = NoRc /\ ~Returned
                 /\ ~Called("IODeregisterForSystemPower")))

\* C18 witness: main returned after a sleep request that succeeded, a
\* has-powered-on notification that reached the callback, and one restore.
C18_Witness ==
    /\ ~simulate
    /\ sleepResult = kIOReturnSuccess
    /\ Called(kIOMessageSystemHasPoweredOn)
    /\ Returned
    /\ RestoreAttemptedOnce

----------------------------------------------------------------------------

\* the steps of the run that have failed so far
FailedSteps ==
    (IF gate \notin {NoRc, kCheckOSReleaseSupported} /\ pc # "main_gate"
     THEN 1 ELSE 0)
    + (IF adapt.rc \notin {NoRc, kPMAdaptPreferencesSuccess}
          /\ pc # "main_adapt" THEN 1 ELSE 0)
    + (IF RegistrationFailed THEN 1 ELSE 0)
    + (IF SleepRequestFailed THEN 1 ELSE 0)
    + (IF restore \notin {NoRc, kPMRestorePreferencesSuccess}
          /\ pc # "main_restore" THEN 1 ELSE 0)

\* C19: every failing step writes exactly one diagnostic line, so the lines
\* written are as many as the steps that failed; a not-privileged result of
\* IOPMSleepSystem writes the must-run-as-root line only; and a run that
\* returns 0 has written none.
C19_OneDiagnosticPerFailure ==
    /\ Len(stderr) = FailedSteps
    /\ sleepResult = kIOReturnNotPrivileged =>
          /\ \E i \in 1..Len(stderr) : stderr[i] = "hibernate: must be run as root"
          /\ \A i \in 1..Len(stderr) :
                stderr[i] # "hibernate: failed to initiate system sleep"
    /\ (Returned /\ exitCode = kMainSuccess) => stderr = <<>>

\* a providing power source type was asked for and there is none
NoProvidingSource ==
    /\ Called("IOPSGetProvidingPowerSourceType")
    /\ adapt.psType = NoSource

\* C20: when IOPSGetProvidingPowerSourceType returns no type,
\* PMAdaptPreferences returns the power-source error after releasing the two
\* snapshot dictionaries once each: the process does not fault, no reference
\* to the absent type is taken, nothing more is called and the store is not
\* written.
C20_MissingPowerSource ==
    NoProvidingSource =>
        /\ pc # "crashed"
        /\ adapt.rc = kPMAdaptPreferencesErrorPowerSource
        /\ refs["psType"].acq = 0
        /\ \A o \in {"activePMProfiles", "customPMPreferences"} :
              refs[o].acq = 1 /\ refs[o].rel = 1
        /\ log[Len(log)] = "IOPSGetProvidingPowerSourceType"
        /\ store = store0
        /\ Returned => exitCode = kMainErrorPMAdaptPreferences

----------------------------------------------------------------------------

\* the second write of PMAdaptPreferences, the profile selection, was rejected
AdaptProfilesRejected ==
    /\ adapt.rc = kPMAdaptPreferencesErrorActiveProfiles
    /\ Called("IOPMSetActivePowerProfiles")

\* C21: PMAdaptPreferences writes the custom preferences before the profile
\* selection; when the first write was accepted and the second is rejected it
\* returns the ActiveProfiles error and writes nothing more, so that the store
\* holds the mutated preferences with the original profile selection, and
\* main returns 3.
C21_NoRollback ==
    /\ pc = "a_setprofiles" =>
          /\ Count("IOPMSetCustomPMPreferences") = 1
          /\ ~Called("IOPMSetActivePowerProfiles")
          /\ store.custom = AdaptedPreferences(adapt)
    /\ AdaptProfilesRejected =>
          /\ Count("IOPMSetCustomPMPreferences") = 1
          /\ Count("IOPMSetActivePowerProfiles") = 1
          /\ Before("IOPMSetCustomPMPreferences", "IOPMSetActivePowerProfiles")
          /\ log[Len(log)] = "IOPMSetActivePowerProfiles"
          /\ store.custom = AdaptedPreferences(adapt)
          /\ store.profiles = store0.profiles
          /\ pc \in {"main_adapt", "done"}
          /\ Returned => exitCode = kMainErrorPMAdaptPreferences

\* C21 witness: main returned 3 with the mutated preferences stored under a
\* profile selection that the rejected write would have changed.
C21_Witness ==
    /\ Returned
    /\ AdaptProfilesRejected
    /\ exitCode = kMainErrorPMAdaptPreferences
    /\ store.custom # store0.custom
    /\ adapt.mcPMActiveProfiles # store0.profiles
    /\ store.profiles = store0.profiles

\* the preference writes issued since the teardown of the registration, which
\* are the writes of PMRestorePreferences
RestoreWrites ==
    LET teardown == {i \in 1..Len(log) : log[i] = "IODeregisterForSystemPower"}
        from == IF teardown = {} THEN Len(log) + 1
                ELSE (CHOOSE i \in teardown : TRUE) + 1
    IN  SelectSeq(SubSeq(log, from, Len(log)),
                  LAMBDA c : c \in {"IOPMSetCustomPMPreferences",
                                    "IOPMSetActivePowerProfiles"})

\* C22: PMRestorePreferences writes the snapshot's custom preferences first
\* and the snapshot's profile selection second, each as captured; when the
\* first write is rejected it returns the CustomPreferences error without
\* attempting the second, and the store stays as the mutation left it; when
\* only the second is rejected it returns the ActiveProfiles error; main then
\* returns 4; and success is returned only when both writes were accepted.
C22_RestoreOrder ==
    /\ pc = "r_setprofiles" =>
          /\ RestoreWrites = <<"IOPMSetCustomPMPreferences">>
          /\ store.custom = snap.customPMPreferences
          /\ store.profiles = AdaptedStore.profiles
    /\ restore = kPMRestorePreferencesErrorCustomPreferences =>
          /\ RestoreWrites = <<"IOPMSetCustomPMPreferences">>
          /\ store = AdaptedStore
          /\ store.profiles[adapt.psType] = kIOPMCustomPowerProfile
          /\ Returned => exitCode = kMainErrorPMRestorePreferences
    /\ restore = kPMRestorePreferencesErrorActiveProfiles =>
          /\ RestoreWrites = <<"IOPMSetCustomPMPreferences",
                               "IOPMSetActivePowerProfiles">>
          /\ store.custom = snap.customPMPreferences
          /\ store.profiles = AdaptedStore.profiles
          /\ Returned => exitCode = kMainErrorPMRestorePreferences
    /\ restore = kPMRestorePreferencesSuccess =>
          /\ RestoreWrites = <<"IOPMSetCustomPMPreferences",
                               "IOPMSetActivePowerProfiles">>
          /\ store.custom = snap.customPMPreferences
          /\ store.profiles = snap.activePMProfiles
    /\ restore # NoRc =>
          /\ snap.customPMPreferences = store0.custom
          /\ snap.activePMProfiles = store0.profiles

\* C22 witness: main returned 4 after the first restoring write was rejected
\* on a store the mutation had changed in both parts, the profile write not
\* attempted.
C22_Witness ==
    /\ Returned
    /\ restore = kPMRestorePreferencesErrorCustomPreferences
    /\ exitCode = kMainErrorPMRestorePreferences
    /\ store.custom # store0.custom
    /\ store.profiles # store0.profiles
    /\ Count("IOPMSetActivePowerProfiles") = 1

\* every reference the code acquired has been released, once
AllReleasedOnce ==
    \A o \in Objects : refs[o].acq <= 1 /\ refs[o].rel = refs[o].acq

\* C23: when main returns 3, after a read failure or after a rejected write
\* of PMAdaptPreferences, every object the code acquired has been released
\* exactly once, the two snapshot dictionaries included, and none twice.
C23_ReleasedOnAdaptFailure ==
    /\ \A o \in {"activePMProfiles", "customPMPreferences"} :
          refs[o].rel <= refs[o].acq
    /\ (Returned /\ exitCode = kMainErrorPMAdaptPreferences) => AllReleasedOnce

----------------------------------------------------------------------------

\* a step in which the run loop calls IOPowerNotificationCallback with the
\* message at the head of the port, of the given type
CallbackInvoked(type) ==
    /\ pc = "run_loop"
    /\ ~loopStopped
    /\ port # <<>>
    /\ Head(port).type = type
    /\ port' = Tail(port)

\* the messages the callback has been called with
Handled == SelectSeq(log, LAMBDA c : c \in MessageTypes)

\* C24: every call of IOPowerNotificationCallback with a will-sleep message
\* makes exactly one IOAllowPowerChange on the registered session with the
\* argument of that message as token and does not stop the run loop; the
\* tokens acknowledged are never repeated and are those of the will-sleep
\* messages handled, one acknowledgement each.
C24_AcknowledgedOnceWithOwnToken ==
    /\ [][CallbackInvoked(kIOMessageSystemWillSleep) =>
             /\ acked' = Append(acked, Head(port).argument)
             /\ log' = log \o <<kIOMessageSystemWillSleep, "IOAllowPowerChange">>
             /\ session # 0
             /\ session' = session
             /\ loopStopped' = loopStopped
             /\ pc' = pc]_vars
    /\ [](/\ \A i, j \in 1..Len(acked) : i # j => acked[i] # acked[j]
          /\ AckedTokens \subseteq WillSleepTokens
          /\ Count("IOAllowPowerChange") = Len(acked)
          /\ Count(kIOMessageSystemWillSleep) = Len(acked)
          /\ Called("IOAllowPowerChange") =>
                (session # 0 /\ Before("IOPMSleepSystem", "IOAllowPowerChange")))

\* C24 witness: two will-sleep messages were handled and acknowledged, each
\* with its own token, and the run loop is still running.
C24_Witness ==
    /\ acked = <<1, 2>>
    /\ Handled = <<kIOMessageSystemWillSleep, kIOMessageSystemWillSleep>>
    /\ pc = "run_loop"
    /\ ~loopStopped

\* the message types the callback has no case for
OtherMessageTypes ==
    MessageTypes \ {kIOMessageSystemHasPoweredOn, kIOMessageSystemWillSleep}

\* C25: a call of IOPowerNotificationCallback with a message of any other
\* type than has-powered-on and will-sleep acknowledges nothing, does not stop
\* the run loop and leaves the session and the preference store unchanged:
\* main keeps waiting in the run loop.
C25_OtherEventsIgnored ==
    [][\A type \in OtherMessageTypes :
          CallbackInvoked(type) =>
             /\ acked' = acked
             /\ log' = Append(log, type)
             /\ loopStopped' = loopStopped
             /\ session' = session
             /\ store' = store
             /\ sleepResult' = sleepResult
             /\ restore' = restore
             /\ pc' = "run_loop"]_vars

\* C25 witness: after a successful sleep request the callback was called with
\* a can-sleep query and main is still waiting in the run loop.
C25_Witness ==
    /\ sleepResult = kIOReturnSuccess
    /\ Handled = <<kIOMessageCanSystemSleep>>
    /\ pc = "run_loop"
    /\ ~loopStopped
    /\ acked = <<>>

\* the callback handled a has-powered-on message after it had acknowledged a
\* will-sleep message: the path AwaitingSleepPermission, AwaitingWake, done
WokeAfterAcknowledgedSleep ==
    \E i, j \in 1..Len(log) :
        /\ i < j
        /\ log[i] = "IOAllowPowerChange"
        /\ log[j] = kIOMessageSystemHasPoweredOn

\* C26: in a real-sleep build, after a successful sleep request the run loop
\* is stopped, and the teardown and the restore are started, only when the
\* callback has acknowledged a will-sleep message and handled a
\* has-powered-on message after it; a has-powered-on message queued before
\* the request, or handled with no will-sleep acknowledged before it, does
\* not end the wait.
C26_WaitEndsOnlyOnWake ==
    (~simulate /\ sleepResult = kIOReturnSuccess
     /\ (loopStopped \/ RestoreStarted \/ Called("IODeregisterForSystemPower")))
        => WokeAfterAcknowledgedSleep

====
